---- MODULE Spec2Model ----
(***************************************************************************)
(* Fan-out / fan-in engine of the elasticsearch benchmark client:          *)
(* createParallel / searchParallel (the dispatcher, run by the main        *)
(* goroutine), createAsync / searchAsync (one worker goroutine per input   *)
(* channel) and waitForCases (the reflect.Select loop, run by the main     *)
(* goroutine once dispatch is over).                                       *)
(***************************************************************************)
EXTENDS Integers, Sequences, FiniteSets, TLC

\* Largest -count value explored.
MaxCount == 3
\* Largest -concurrency value explored.
MaxConcurrency == 2
\* Largest number of values the free producers of MuxSpec send.
MaxEnvSends == 2
\* Largest --count, --bulkcount and --concurrency of the atomic-cursor variant.
MaxCursorCount == 4
MaxBulk == 3
MaxRoutines == 2
MaxFrequency == 3
\* Largest -count of a bulk create run.
MaxBatchCount == 3
\* Largest number of lines of a sampled data file.
MaxLines == 3

VARIABLES
    count,              \* -count flag (T)
    concurrency,        \* -concurrency flag (C)
    mainpc,             \* position of the main goroutine
    mi,                 \* loop index i of the main goroutine's current loop
    inputs,             \* inputs[w]: buffer of worker w's input channel
    inClosed,           \* inClosed[w]: number of close(inputs[w]) executed
    outputs,            \* outputs[w]: buffer of worker w's output channel
    outClosed,          \* outClosed[w]: number of close(outputs) executed
    errors,             \* errors[w]: buffer of worker w's error channel
    errClosed,          \* errClosed[w]: number of close(errors) executed
    wpc,                \* wpc[w]: position of worker goroutine w
    job,                \* job[w]: the request worker w holds
    callResult,         \* callResult[i]: what request.Do() returned for item i
    received,           \* received[w]: the items worker w took from its input
    cases,              \* the []reflect.SelectCase of waitForCases
    middle,             \* waitForCases: boundary between outputs and errors
    succeeded,
    failed,
    succeededMessages,
    failedMessages

\* The atomic-cursor variant (create / createRoutine).
VARIABLES
    CommandArgs,        \* the parsed flags: Count, Bulk, Concurrency
    totalWrite,         \* the shared int32 cursor
    createpc,           \* position of create()
    wg,                 \* the sync.WaitGroup counter of create()
    rpc,                \* rpc[r]: position of createRoutine r
    t,                  \* t[r]: createRoutine's local t
    batches,            \* batches[r]: sizes of the bulk requests r has sent
    last                \* var last time.Time: -1 its zero value, 0 a time.Now()

cursorVars == <<CommandArgs, totalWrite, createpc, wg, rpc, t, batches, last>>

\* Bulk create mode (createByBatch); count, succeeded and failed are shared
\* with the channel engine, as in the program.
VARIABLES
    batchpc,            \* position of createByBatch
    response,           \* what bulk.Do() returned
    bi,                 \* loop index i over response.Items
    datafile            \* the records appended to the data file by writeRecord

batchVars == <<batchpc, response, bi, datafile>>

\* Query sampling (getLine).
VARIABLES
    fileLines,          \* the lines of the data file
    linepc,             \* position of getLine
    offset,             \* the offset of the ReadAt that ended getLine
    examined,           \* the lines parsed by the iteration that returned
    lineKey,            \* getLine's first result
    lineValue,          \* getLine's second result
    lineErr,            \* why getLine failed
    linesRead           \* ReadLine calls of the last iteration of getLine

lineVars == <<fileLines, linepc, offset, examined, lineKey, lineValue, lineErr,
             linesRead>>

\* Start-up (main up to the first dispatched work item).
VARIABLES
    setuppc,            \* position of main
    command,            \* -command flag
    bulk,               \* -bulk flag
    indexExists,        \* the answer of client.IndexExists
    sampled,            \* number of queries sampled by searchParallel
    failedStep,         \* the set-up step that failed, if any
    exitStatus,         \* exit status of the process, -1 while it runs
    remoteCalls,        \* index, bulk and search calls issued so far
    variant,            \* which main/parseFlags of the sources is running
    printed             \* the report lines main has printed

setupVars == <<setuppc, command, bulk, indexExists, sampled, failedStep,
               exitStatus, remoteCalls, variant, printed>>

\* Calling waitForCases again on a fresh channel set.
VARIABLES
    run                 \* number of the current call of waitForCases

rerunVars == <<run>>

\* Variables of the other variants; the channel engine leaves them alone.
auxVars == <<cursorVars, batchVars, lineVars, setupVars, rerunVars>>

vars == <<count, concurrency, mainpc, mi, inputs, inClosed, outputs, outClosed,
          errors, errClosed, wpc, job, callResult, received, cases, middle,
          succeeded, failed, succeededMessages, failedMessages, auxVars>>

engineVars == <<count, concurrency, mainpc, mi, inputs, inClosed, outputs,
                outClosed, errors, errClosed, wpc, job, callResult, received,
                cases, middle, succeeded, failed, succeededMessages,
                failedMessages>>

chanVars == <<inputs, inClosed, outputs, outClosed, errors, errClosed>>
workerVars == <<wpc, job, callResult, received>>
muxVars == <<cases, middle, succeeded, failed, succeededMessages, failedMessages>>

Workers == 0 .. (concurrency - 1)
Items == 0 .. (count - 1)

NoJob == -1

------------------------------------------------------------------------------
\* a validation that lets a concurrency of 0 through
ValidFlags_zeroConcurrency(T, C) == C >= 0 /\ T >= C

\* parseFlags: concurrency > 0 and count >= concurrency, else os.Exit(1).
ValidFlags(T, C) == C > 0 /\ T >= C

\* a capacity that rounds count/concurrency down
tasksPerChannel_floor == count \div concurrency

\* prepareChannels: tasksPerChannel := 1 + (count-1)/concurrency
tasksPerChannel == 1 + ((count - 1) \div concurrency)

\* prepareChannels: make(chan string, concurrency) for outputs[i], errors[i]
outcomeCapacity == concurrency

\* both loops of prepareCases register the error channels
prepareCases_errorsTwice(C) ==
    [k \in 1 .. (C + C) |-> [kind |-> "err", w |-> (k - 1) % C]]

\* prepareCases: cases[i] = outputs[i], cases[i+concurrency] = errors[i]
prepareCases(C) ==
    [k \in 1 .. (C + C) |->
        IF k - 1 < C THEN [kind |-> "out", w |-> k - 1]
                     ELSE [kind |-> "err", w |-> k - 1 - C]]

\* a dispatcher that starts the round at worker 1 instead of worker 0
dispatchTarget_shifted(i) == (i + 1) % concurrency

\* createParallel: inputs[i%concurrency] <- request
dispatchTarget(i) == i % concurrency

\* a removal that also drops the case following the chosen one
removeCase_two(cs, chosen) ==
    SubSeq(cs, 1, chosen) \o SubSeq(cs, chosen + 3, Len(cs))

\* append(cases[:chosen], cases[chosen+1:]...)  (chosen is 0-based)
removeCase(cs, chosen) ==
    SubSeq(cs, 1, chosen) \o SubSeq(cs, chosen + 2, Len(cs))

\* a boundary that is not moved when an output channel is removed
nextMiddle_stale(chosen, m) == m

\* if chosen < middle { middle -= 1 }
nextMiddle(chosen, m) == IF chosen < m THEN m - 1 ELSE m

\* chosen < middle selects the success branch
isOutputIndex(chosen, m) == chosen < m

\* buffer and close state of the channel a select case refers to
chanBuf(c) == IF c.kind = "out" THEN outputs[c.w] ELSE errors[c.w]
chanClosed(c) == IF c.kind = "out" THEN outClosed[c.w] > 0 ELSE errClosed[c.w] > 0

------------------------------------------------------------------------------
\* The atomic-cursor variant is not running.
CursorIdle ==
    /\ CommandArgs = [Count |-> 1, Bulk |-> 1, Concurrency |-> 1, Frequency |-> 1]
    /\ last = -1
    /\ totalWrite = 0
    /\ createpc = "idle"
    /\ wg = 0
    /\ rpc = <<>>
    /\ t = <<>>
    /\ batches = <<>>

\* createByBatch is not running.
BatchIdle ==
    /\ batchpc = "idle"
    /\ response = <<>>
    /\ bi = 0
    /\ datafile = <<>>

\* getLine is not running.
LineIdle ==
    /\ fileLines = <<>>
    /\ linepc = "idle"
    /\ offset = 0
    /\ examined = <<>>
    /\ lineKey = <<>>
    /\ lineValue = <<>>
    /\ lineErr = "none"
    /\ linesRead = 0

\* main's set-up is not modelled in this run.
SetupIdle ==
    /\ setuppc = "idle"
    /\ command = "create"
    /\ bulk = FALSE
    /\ indexExists = TRUE
    /\ sampled = 0
    /\ failedStep = "none"
    /\ exitStatus = -1
    /\ remoteCalls = 0
    /\ variant = "current"
    /\ printed = {}

RerunIdle == run = 1

AuxIdle == CursorIdle /\ BatchIdle /\ LineIdle /\ SetupIdle /\ RerunIdle

Init ==
    /\ AuxIdle
    /\ count \in 1 .. MaxCount
    /\ concurrency \in 1 .. MaxConcurrency
    /\ ValidFlags(count, concurrency)
    /\ mainpc = "spawn"
    /\ mi = 0
    /\ inputs = [w \in Workers |-> <<>>]
    /\ inClosed = [w \in Workers |-> 0]
    /\ outputs = [w \in Workers |-> <<>>]
    /\ outClosed = [w \in Workers |-> 0]
    /\ errors = [w \in Workers |-> <<>>]
    /\ errClosed = [w \in Workers |-> 0]
    /\ wpc = [w \in Workers |-> "unborn"]
    /\ job = [w \in Workers |-> NoJob]
    /\ callResult = [i \in Items |-> "none"]
    /\ received = [w \in Workers |-> <<>>]
    /\ cases = prepareCases(concurrency)
    /\ middle = 0
    /\ succeeded = 0
    /\ failed = 0
    /\ succeededMessages = <<>>
    /\ failedMessages = <<>>

------------------------------------------------------------------------------
\* Main goroutine, createParallel / searchParallel.

\* for i := 0; i < concurrency; i++ { go createAsync(...) }
Spawn ==
    /\ mainpc = "spawn"
    /\ wpc' = [wpc EXCEPT ![mi] = "recv"]
    /\ IF mi + 1 < concurrency
          THEN /\ mi' = mi + 1
               /\ mainpc' = "spawn"
          ELSE /\ mi' = 0
               /\ mainpc' = "send"
    /\ UNCHANGED <<auxVars, count, concurrency, chanVars, job, callResult, received, muxVars>>

\* for i, request := range requests { inputs[i%concurrency] <- request }
Dispatch ==
    /\ mainpc = "send"
    /\ LET w == dispatchTarget(mi) IN
        /\ \/ inClosed[w] > 0              \* send on a closed channel panics
           \/ Len(inputs[w]) < tasksPerChannel
        /\ IF inClosed[w] > 0
              THEN /\ mainpc' = "panic"
                   /\ UNCHANGED <<mi, inputs>>
              ELSE /\ inputs' = [inputs EXCEPT ![w] = Append(@, mi)]
                   /\ IF mi + 1 < count
                         THEN /\ mi' = mi + 1
                              /\ mainpc' = "send"
                         ELSE /\ mi' = 0
                              /\ mainpc' = "close"
    /\ UNCHANGED <<auxVars, count, concurrency, inClosed, outputs, outClosed, errors,
                   errClosed, workerVars, muxVars>>

\* a close loop that closes inputs[0] on every iteration
CloseInputs_alwaysFirst ==
    /\ mainpc = "close"
    /\ inClosed' = [inClosed EXCEPT ![0] = @ + 1]
    /\ IF mi + 1 < concurrency
          THEN /\ mi' = mi + 1
               /\ mainpc' = "close"
               /\ UNCHANGED muxVars
          ELSE /\ mi' = 0
               /\ mainpc' = "wait"
               /\ middle' = concurrency
               /\ succeeded' = 0
               /\ succeededMessages' = <<>>
               /\ failed' = 0
               /\ failedMessages' = <<>>
               /\ UNCHANGED cases
    /\ UNCHANGED <<auxVars, count, concurrency, inputs, outputs, outClosed, errors,
                   errClosed, workerVars>>

\* for i := 0; i < concurrency; i++ { close(inputs[i]) }
\* followed by the entry of waitForCases (middle := concurrency, ...)
CloseInputs ==
    /\ mainpc = "close"
    /\ IF inClosed[mi] > 0
          THEN /\ mainpc' = "panic"        \* close of a closed channel panics
               /\ UNCHANGED <<mi, inClosed, muxVars>>
          ELSE /\ inClosed' = [inClosed EXCEPT ![mi] = @ + 1]
               /\ IF mi + 1 < concurrency
                     THEN /\ mi' = mi + 1
                          /\ mainpc' = "close"
                          /\ UNCHANGED muxVars
                     ELSE /\ mi' = 0
                          /\ mainpc' = "wait"
                          /\ middle' = concurrency
                          /\ succeeded' = 0
                          /\ succeededMessages' = <<>>
                          /\ failed' = 0
                          /\ failedMessages' = <<>>
                          /\ UNCHANGED cases
    /\ UNCHANGED <<auxVars, count, concurrency, inputs, outputs, outClosed, errors,
                   errClosed, workerVars>>

------------------------------------------------------------------------------
\* waitForCases: one iteration of  for len(cases) > 0 { reflect.Select ... }

\* a collector that already receives while the dispatcher sends
SelectValue_duringDispatch ==
    /\ mainpc \in {"send", "wait"}
    /\ \E chosen \in 0 .. (Len(cases) - 1) :
        LET c == cases[chosen + 1]
            value == Head(chanBuf(c)) IN
        /\ chanBuf(c) # <<>>
        /\ IF c.kind = "out"
              THEN /\ outputs' = [outputs EXCEPT ![c.w] = Tail(@)]
                   /\ UNCHANGED errors
              ELSE /\ errors' = [errors EXCEPT ![c.w] = Tail(@)]
                   /\ UNCHANGED outputs
        /\ IF c.kind = "out"
              THEN /\ succeededMessages' = Append(succeededMessages, value)
                   /\ succeeded' = succeeded + 1
                   /\ UNCHANGED <<failed, failedMessages>>
              ELSE /\ failedMessages' = Append(failedMessages, value)
                   /\ failed' = failed + 1
                   /\ UNCHANGED <<succeeded, succeededMessages>>
    /\ UNCHANGED <<auxVars, count, concurrency, mainpc, mi, inputs, inClosed, outClosed,
                   errClosed, workerVars, cases, middle>>

\* a collector that puts each new value at the head of its list
SelectValue_prepends ==
    /\ mainpc = "wait"
    /\ \E chosen \in 0 .. (Len(cases) - 1) :
        LET c == cases[chosen + 1]
            value == Head(chanBuf(c)) IN
        /\ chanBuf(c) # <<>>
        /\ IF c.kind = "out"
              THEN /\ outputs' = [outputs EXCEPT ![c.w] = Tail(@)]
                   /\ UNCHANGED errors
              ELSE /\ errors' = [errors EXCEPT ![c.w] = Tail(@)]
                   /\ UNCHANGED outputs
        /\ IF isOutputIndex(chosen, middle)
              THEN /\ succeededMessages' = <<value>> \o succeededMessages
                   /\ succeeded' = succeeded + 1
                   /\ UNCHANGED <<failed, failedMessages>>
              ELSE /\ failedMessages' = <<value>> \o failedMessages
                   /\ failed' = failed + 1
                   /\ UNCHANGED <<succeeded, succeededMessages>>
    /\ UNCHANGED <<auxVars, count, concurrency, mainpc, mi, inputs, inClosed, outClosed,
                   errClosed, workerVars, cases, middle>>

\* reflect.Select returned ok = true: a value was received from cases[chosen].
SelectValue ==
    /\ mainpc = "wait"
    /\ \E chosen \in 0 .. (Len(cases) - 1) :
        LET c == cases[chosen + 1]
            value == Head(chanBuf(c)) IN
        /\ chanBuf(c) # <<>>
        /\ IF c.kind = "out"
              THEN /\ outputs' = [outputs EXCEPT ![c.w] = Tail(@)]
                   /\ UNCHANGED errors
              ELSE /\ errors' = [errors EXCEPT ![c.w] = Tail(@)]
                   /\ UNCHANGED outputs
        /\ IF isOutputIndex(chosen, middle)
              THEN /\ succeededMessages' = Append(succeededMessages, value)
                   /\ succeeded' = succeeded + 1
                   /\ UNCHANGED <<failed, failedMessages>>
              ELSE /\ failedMessages' = Append(failedMessages, value)
                   /\ failed' = failed + 1
                   /\ UNCHANGED <<succeeded, succeededMessages>>
    /\ UNCHANGED <<auxVars, count, concurrency, mainpc, mi, inputs, inClosed, outClosed,
                   errClosed, workerVars, cases, middle>>

\* a collector that returns as soon as one channel is closed
SelectClosed_returnsAtFirstClose ==
    /\ mainpc = "wait"
    /\ \E chosen \in 0 .. (Len(cases) - 1) :
        LET c == cases[chosen + 1] IN
        /\ chanBuf(c) = <<>>
        /\ chanClosed(c)
        /\ cases' = removeCase(cases, chosen)
        /\ middle' = nextMiddle(chosen, middle)
        /\ mainpc' = "done"
    /\ UNCHANGED <<auxVars, count, concurrency, mi, chanVars, workerVars, succeeded,
                   failed, succeededMessages, failedMessages>>

\* reflect.Select returned ok = false: cases[chosen] is closed and drained.
SelectClosed ==
    /\ mainpc = "wait"
    /\ \E chosen \in 0 .. (Len(cases) - 1) :
        LET c == cases[chosen + 1] IN
        /\ chanBuf(c) = <<>>
        /\ chanClosed(c)
        /\ cases' = removeCase(cases, chosen)
        /\ middle' = nextMiddle(chosen, middle)
        /\ mainpc' = IF Len(cases') > 0 THEN "wait" ELSE "done"
    /\ UNCHANGED <<auxVars, count, concurrency, mi, chanVars, workerVars, succeeded,
                   failed, succeededMessages, failedMessages>>

------------------------------------------------------------------------------
\* Worker goroutine, createAsync / searchAsync.

\* a worker that starts the call in the background and takes the next job
WorkerRecv_callInBackground(w) ==
    /\ wpc[w] = "recv"
    /\ \/ inputs[w] # <<>>
       \/ inClosed[w] > 0
    /\ IF inputs[w] # <<>>
          THEN /\ job' = [job EXCEPT ![w] = Head(inputs[w])]
               /\ inputs' = [inputs EXCEPT ![w] = Tail(@)]
               /\ received' = [received EXCEPT ![w] = Append(@, Head(inputs[w]))]
               /\ wpc' = [wpc EXCEPT ![w] = IF inputs'[w] # <<>> THEN "recv" ELSE "call"]
          ELSE /\ wpc' = [wpc EXCEPT ![w] = "closeErr"]
               /\ UNCHANGED <<job, inputs, received>>
    /\ UNCHANGED <<auxVars, count, concurrency, mainpc, mi, inClosed, outputs, outClosed,
                   errors, errClosed, callResult, muxVars>>

\* job, moreJob := <-inputs
WorkerRecv(w) ==
    /\ wpc[w] = "recv"
    /\ \/ inputs[w] # <<>>
       \/ inClosed[w] > 0
    /\ IF inputs[w] # <<>>
          THEN /\ job' = [job EXCEPT ![w] = Head(inputs[w])]
               /\ inputs' = [inputs EXCEPT ![w] = Tail(@)]
               /\ received' = [received EXCEPT ![w] = Append(@, Head(inputs[w]))]
               /\ wpc' = [wpc EXCEPT ![w] = "call"]
          ELSE /\ wpc' = [wpc EXCEPT ![w] = "closeErr"]      \* break
               /\ UNCHANGED <<job, inputs, received>>
    /\ UNCHANGED <<auxVars, count, concurrency, mainpc, mi, inClosed, outputs, outClosed,
                   errors, errClosed, callResult, muxVars>>

\* the error test inverted
afterCall_inverted(r) == IF r = "err" THEN "sendOut" ELSE "sendErr"

\* where the worker goes once request.Do() has returned r
afterCall(r) == IF r = "err" THEN "sendErr" ELSE "sendOut"

\* response, err := request.Do()   (the remote call returns)
WorkerCall(w) ==
    /\ wpc[w] = "call"
    /\ \E r \in {"ok", "err"} :
        /\ callResult' = [callResult EXCEPT ![job[w]] = r]
        /\ wpc' = [wpc EXCEPT ![w] = afterCall(r)]
    /\ UNCHANGED <<auxVars, count, concurrency, mainpc, mi, chanVars, job, received, muxVars>>

\* where the worker goes after it has pushed an outcome: back to the receive
afterSend == "recv"

\* outputs <- response.Id
WorkerSendOut(w) ==
    /\ wpc[w] = "sendOut"
    /\ \/ outClosed[w] > 0
       \/ Len(outputs[w]) < outcomeCapacity
    /\ IF outClosed[w] > 0
          THEN /\ wpc' = [wpc EXCEPT ![w] = "panic"]
               /\ UNCHANGED outputs
          ELSE /\ outputs' = [outputs EXCEPT ![w] = Append(@, job[w])]
               /\ wpc' = [wpc EXCEPT ![w] = afterSend]
    /\ UNCHANGED <<auxVars, count, concurrency, mainpc, mi, inputs, inClosed, outClosed,
                   errors, errClosed, job, callResult, received, muxVars>>

\* a worker that reports a failed call on both channels (missing else)
WorkerSendErr_alsoOut(w) ==
    /\ wpc[w] = "sendErr"
    /\ Len(errors[w]) < outcomeCapacity
    /\ errors' = [errors EXCEPT ![w] = Append(@, job[w])]
    /\ wpc' = [wpc EXCEPT ![w] = "sendOut"]
    /\ UNCHANGED <<auxVars, count, concurrency, mainpc, mi, inputs, inClosed, outputs,
                   outClosed, errClosed, job, callResult, received, muxVars>>

\* a worker that gives up after the first failed call
WorkerSendErr_thenBreak(w) ==
    /\ wpc[w] = "sendErr"
    /\ Len(errors[w]) < outcomeCapacity
    /\ errors' = [errors EXCEPT ![w] = Append(@, job[w])]
    /\ wpc' = [wpc EXCEPT ![w] = "closeErr"]
    /\ UNCHANGED <<auxVars, count, concurrency, mainpc, mi, inputs, inClosed, outputs,
                   outClosed, errClosed, job, callResult, received, muxVars>>

\* a worker that swallows the error instead of reporting it
WorkerSendErr_dropped(w) ==
    /\ wpc[w] = "sendErr"
    /\ wpc' = [wpc EXCEPT ![w] = afterSend]
    /\ UNCHANGED <<auxVars, count, concurrency, mainpc, mi, chanVars, job, callResult,
                   received, muxVars>>

\* errors <- err.Error()
WorkerSendErr(w) ==
    /\ wpc[w] = "sendErr"
    /\ \/ errClosed[w] > 0
       \/ Len(errors[w]) < outcomeCapacity
    /\ IF errClosed[w] > 0
          THEN /\ wpc' = [wpc EXCEPT ![w] = "panic"]
               /\ UNCHANGED errors
          ELSE /\ errors' = [errors EXCEPT ![w] = Append(@, job[w])]
               /\ wpc' = [wpc EXCEPT ![w] = afterSend]
    /\ UNCHANGED <<auxVars, count, concurrency, mainpc, mi, inputs, inClosed, outputs,
                   outClosed, errClosed, job, callResult, received, muxVars>>

\* both deferred calls close the output channel
WorkerCloseErr_closesOut(w) ==
    /\ wpc[w] = "closeErr"
    /\ outClosed' = [outClosed EXCEPT ![w] = @ + 1]
    /\ wpc' = [wpc EXCEPT ![w] = "closeOut"]
    /\ UNCHANGED <<auxVars, count, concurrency, mainpc, mi, inputs, inClosed, outputs,
                   errors, errClosed, job, callResult, received, muxVars>>

\* defer close(errors)   (deferred last, so it runs first)
WorkerCloseErr(w) ==
    /\ wpc[w] = "closeErr"
    /\ IF errClosed[w] > 0
          THEN /\ wpc' = [wpc EXCEPT ![w] = "panic"]
               /\ UNCHANGED errClosed
          ELSE /\ errClosed' = [errClosed EXCEPT ![w] = @ + 1]
               /\ wpc' = [wpc EXCEPT ![w] = "closeOut"]
    /\ UNCHANGED <<auxVars, count, concurrency, mainpc, mi, inputs, inClosed, outputs,
                   outClosed, errors, job, callResult, received, muxVars>>

\* a worker that returns without closing its output channel
WorkerCloseOut_forgotten(w) ==
    /\ wpc[w] = "closeOut"
    /\ wpc' = [wpc EXCEPT ![w] = "done"]
    /\ UNCHANGED <<auxVars, count, concurrency, mainpc, mi, chanVars, job, callResult,
                   received, muxVars>>

\* defer close(outputs)
WorkerCloseOut(w) ==
    /\ wpc[w] = "closeOut"
    /\ IF outClosed[w] > 0
          THEN /\ wpc' = [wpc EXCEPT ![w] = "panic"]
               /\ UNCHANGED outClosed
          ELSE /\ outClosed' = [outClosed EXCEPT ![w] = @ + 1]
               /\ wpc' = [wpc EXCEPT ![w] = "done"]
    /\ UNCHANGED <<auxVars, count, concurrency, mainpc, mi, inputs, inClosed, outputs,
                   errors, errClosed, job, callResult, received, muxVars>>

------------------------------------------------------------------------------
MainStep == Spawn \/ Dispatch \/ CloseInputs \/ SelectValue \/ SelectClosed

WorkerStep(w) ==
    \/ WorkerRecv(w)
    \/ WorkerCall(w)
    \/ WorkerSendOut(w)
    \/ WorkerSendErr(w)
    \/ WorkerCloseErr(w)
    \/ WorkerCloseOut(w)

Next ==
    \/ Spawn
    \/ Dispatch
    \/ CloseInputs
    \/ SelectValue
    \/ SelectClosed
    \/ \E w \in Workers : WorkerRecv(w)
    \/ \E w \in Workers : WorkerCall(w)
    \/ \E w \in Workers : WorkerSendOut(w)
    \/ \E w \in Workers : WorkerSendErr(w)
    \/ \E w \in Workers : WorkerCloseErr(w)
    \/ \E w \in Workers : WorkerCloseOut(w)

Spec == Init /\ [][Next]_vars

\* The Go scheduler runs every runnable goroutine eventually, and every
\* remote call is assumed to return.
FairSpec ==
    /\ Spec
    /\ WF_vars(MainStep)
    /\ \A w \in 0 .. (MaxConcurrency - 1) : WF_vars(w \in Workers /\ WorkerStep(w))

------------------------------------------------------------------------------
\* waitForCases on its own: the 2C channels are fed and closed by arbitrary
\* producers that respect the channel discipline (no send after close, no
\* double close), so that a channel set may close without a single value.

RECURSIVE buffered(_)
buffered(n) ==
    IF n = 0 THEN 0
    ELSE Len(outputs[n - 1]) + Len(errors[n - 1]) + buffered(n - 1)

\* number of values the producers have sent so far
envSent == succeeded + failed + buffered(concurrency)

MuxInit ==
    /\ AuxIdle
    /\ concurrency \in 1 .. MaxConcurrency
    /\ count = concurrency
    /\ mainpc = "wait"
    /\ mi = 0
    /\ inputs = [w \in Workers |-> <<>>]
    /\ inClosed = [w \in Workers |-> 1]
    /\ outputs = [w \in Workers |-> <<>>]
    /\ outClosed = [w \in Workers |-> 0]
    /\ errors = [w \in Workers |-> <<>>]
    /\ errClosed = [w \in Workers |-> 0]
    /\ wpc = [w \in Workers |-> "producer"]
    /\ job = [w \in Workers |-> NoJob]
    /\ callResult = [i \in Items |-> "none"]
    /\ received = [w \in Workers |-> <<>>]
    /\ cases = prepareCases(concurrency)
    /\ middle = concurrency
    /\ succeeded = 0
    /\ failed = 0
    /\ succeededMessages = <<>>
    /\ failedMessages = <<>>

\* outputs <- v
EnvSendOut(w) ==
    /\ wpc[w] = "producer"
    /\ outClosed[w] = 0
    /\ Len(outputs[w]) < outcomeCapacity
    /\ envSent < MaxEnvSends
    /\ outputs' = [outputs EXCEPT ![w] = Append(@, envSent)]
    /\ UNCHANGED <<auxVars, count, concurrency, mainpc, mi, inputs, inClosed, outClosed,
                   errors, errClosed, workerVars, muxVars>>

\* errors <- v
EnvSendErr(w) ==
    /\ wpc[w] = "producer"
    /\ errClosed[w] = 0
    /\ Len(errors[w]) < outcomeCapacity
    /\ envSent < MaxEnvSends
    /\ errors' = [errors EXCEPT ![w] = Append(@, envSent)]
    /\ UNCHANGED <<auxVars, count, concurrency, mainpc, mi, inputs, inClosed, outputs,
                   outClosed, errClosed, workerVars, muxVars>>

\* close(outputs)
EnvCloseOut(w) ==
    /\ wpc[w] = "producer"
    /\ outClosed[w] = 0
    /\ outClosed' = [outClosed EXCEPT ![w] = 1]
    /\ UNCHANGED <<auxVars, count, concurrency, mainpc, mi, inputs, inClosed, outputs,
                   errors, errClosed, workerVars, muxVars>>

\* close(errors)
EnvCloseErr(w) ==
    /\ wpc[w] = "producer"
    /\ errClosed[w] = 0
    /\ errClosed' = [errClosed EXCEPT ![w] = 1]
    /\ UNCHANGED <<auxVars, count, concurrency, mainpc, mi, inputs, inClosed, outputs,
                   outClosed, errors, workerVars, muxVars>>

MuxNext ==
    \/ SelectValue
    \/ SelectClosed
    \/ \E w \in Workers : EnvSendOut(w)
    \/ \E w \in Workers : EnvSendErr(w)
    \/ \E w \in Workers : EnvCloseOut(w)
    \/ \E w \in Workers : EnvCloseErr(w)

\* The main goroutine, blocked in reflect.Select, is woken when a case is ready.
MuxSpec == MuxInit /\ [][MuxNext]_vars /\ WF_vars(SelectValue \/ SelectClosed)

------------------------------------------------------------------------------
\* Shared vocabulary of the properties.

Terminated == mainpc = "done" /\ \A w \in Workers : wpc[w] = "done"

\* number of items the dispatcher has sent so far
dispatched ==
    IF mainpc = "spawn" THEN 0
    ELSE IF mainpc = "send" THEN mi
    ELSE count

\* the items 0 <= i < n with i mod C = w, in increasing order
roundRobinShare(w, n) ==
    SelectSeq([k \in 1 .. n |-> k - 1], LAMBDA i : i % concurrency = w)

seqCount(s, v) == Cardinality({k \in 1 .. Len(s) : s[k] = v})

\* C1: when waitForCases has returned, succeeded + failed equals the
\* population size T, whatever the worker count and the call results.
C1_CountsAddUp == mainpc = "done" => succeeded + failed = count

C1_Witness ==
    /\ mainpc = "done"
    /\ concurrency = 2
    /\ count = 3
    /\ succeeded > 0
    /\ failed > 0

\* C2: round-robin dispatch is exhaustive and exactly-once: at every moment
\* what worker w has taken from its input followed by what is still buffered
\* there is exactly the items i sent so far with i mod C = w, in order; hence
\* each item reaches one worker and only the worker i mod C, and once the run
\* is over the workers together have received every item exactly once.
C2_RoundRobinExactlyOnce ==
    /\ \A w \in Workers :
          received[w] \o inputs[w] = roundRobinShare(w, dispatched)
    /\ \A i \in Items :
          Cardinality({w \in Workers : seqCount(received[w], i) > 0}) <= 1
    /\ Terminated =>
          \A i \in Items :
             /\ seqCount(received[i % concurrency], i) = 1
             /\ \A w \in Workers : w # i % concurrency => seqCount(received[w], i) = 0

C2_Witness ==
    /\ Terminated
    /\ concurrency = 2
    /\ count = 3
    /\ received[0] = <<0, 2>>
    /\ received[1] = <<1>>

\* all 2C output and error channels have been closed
AllOutcomeChannelsClosed ==
    \A w \in Workers : outClosed[w] > 0 /\ errClosed[w] > 0

\* C3: the waitForCases loop exits exactly when all 2C channels are closed:
\* it has never returned while a channel is open, the case list is empty
\* exactly when it has returned, and once all 2C channels are closed it does
\* return, also when no value was ever sent.
C3_ExitsIffAllClosed ==
    /\ [](mainpc = "done" => AllOutcomeChannelsClosed)
    /\ [](cases = <<>> <=> mainpc = "done")
    /\ (AllOutcomeChannelsClosed ~> mainpc = "done")

C3_Witness ==
    /\ mainpc = "done"
    /\ concurrency = 2
    /\ succeeded + failed = 0
    /\ envSent = 0

\* C4: with fair scheduling and remote calls that return, every run ends: the
\* dispatcher has sent all T items and closed all C inputs, every worker has
\* drained its input and closed both its channels, and waitForCases has
\* returned; no reachable state is stuck before that.
C4_RunTerminates ==
    <>(/\ Terminated
       /\ \A w \in Workers : inClosed[w] = 1 /\ inputs[w] = <<>>
       /\ AllOutcomeChannelsClosed)

\* a finished run in which one worker produced more successes than its output
\* channel holds
C4_Witness ==
    /\ Terminated
    /\ tasksPerChannel > outcomeCapacity
    /\ succeeded = count
    /\ concurrency = 1

\* number of copies of item i anywhere between its worker and the result lists
outcomeCopies(i) ==
    LET w == i % concurrency IN
      seqCount(outputs[w], i) + seqCount(errors[w], i)
      + seqCount(succeededMessages, i) + seqCount(failedMessages, i)

\* the worker has pushed the outcome of item i
outcomeSent(i) ==
    /\ callResult[i] # "none"
    /\ ~ \E w \in Workers : job[w] = i /\ wpc[w] \in {"sendOut", "sendErr"}

\* C5: every processed item has exactly one outcome, on exactly one of its own
\* worker's two channels or in exactly one of the two result lists, never two
\* and never none; a channel is dropped from the case list only closed and
\* empty; when the run is over every item is in the result lists exactly once.
C5_OneOutcomePerItem ==
    /\ \A i \in Items : outcomeCopies(i) = IF outcomeSent(i) THEN 1 ELSE 0
    /\ \A w \in Workers :
          /\ \A k \in 1 .. Len(outputs[w]) : outputs[w][k] % concurrency = w
          /\ \A k \in 1 .. Len(errors[w]) : errors[w][k] % concurrency = w
    /\ \A w \in Workers :
          /\ (~ \E k \in 1 .. Len(cases) : cases[k] = [kind |-> "out", w |-> w])
                => outClosed[w] > 0 /\ outputs[w] = <<>>
          /\ (~ \E k \in 1 .. Len(cases) : cases[k] = [kind |-> "err", w |-> w])
                => errClosed[w] > 0 /\ errors[w] = <<>>
    /\ mainpc = "done" =>
          \A i \in Items :
             seqCount(succeededMessages, i) + seqCount(failedMessages, i) = 1

\* a worker has closed a channel that still buffers an outcome, and the
\* multiplexer has not removed it
C5_Witness ==
    /\ mainpc = "wait"
    /\ \E w \in Workers :
          /\ outClosed[w] > 0
          /\ outputs[w] # <<>>
          /\ \E k \in 1 .. Len(cases) : cases[k] = [kind |-> "out", w |-> w]

\* C6: while waitForCases loops, 0 <= middle <= len(cases), the first middle
\* cases are output channels and the others error channels, no channel is
\* listed twice, and every value counted as a success came from a call that
\* succeeded and every value counted as a failure from a call that failed.
C6_PartitionKept ==
    mainpc \in {"wait", "done"} =>
       /\ 0 <= middle
       /\ middle <= Len(cases)
       /\ \A k \in 1 .. Len(cases) :
             cases[k].kind = IF k <= middle THEN "out" ELSE "err"
       /\ \A k, l \in 1 .. Len(cases) : cases[k] = cases[l] => k = l
       /\ \A k \in 1 .. Len(succeededMessages) :
             callResult[succeededMessages[k]] = "ok"
       /\ \A k \in 1 .. Len(failedMessages) :
             callResult[failedMessages[k]] = "err"
       /\ succeeded = Len(succeededMessages)
       /\ failed = Len(failedMessages)

\* a failure is received after an output channel with a lower index has been
\* removed from the case list
C6_Witness ==
    /\ mainpc = "wait"
    /\ concurrency = 2
    /\ middle = 1
    /\ Len(cases) = 3
    /\ cases[1].w = 1
    /\ failed > 0
    /\ errors[1] # <<>>

\* C7: a worker closes its error channel and its output channel exactly once
\* each, only after it has found its input closed and empty, and it never
\* sends on (or closes again) a channel it has closed.
C7_CloseOnceAfterEndOfInput ==
    \A w \in Workers :
       /\ wpc[w] # "panic"
       /\ outClosed[w] <= 1
       /\ errClosed[w] <= 1
       /\ (outClosed[w] > 0 \/ errClosed[w] > 0) =>
             /\ inClosed[w] > 0
             /\ inputs[w] = <<>>
             /\ wpc[w] \in {"closeOut", "done"}
       /\ wpc[w] \in {"closeOut", "done"} => errClosed[w] = 1
       /\ wpc[w] = "done" => outClosed[w] = 1

C7_Witness ==
    /\ concurrency = 2
    /\ wpc[0] = "done"
    /\ wpc[1] = "done"
    /\ Len(received[0]) = 2

\* failed*100/count = p, without rounding
errorPercentIs(p) == failed * 100 = p * count

\* C8: the returned counts are the remote-call results: succeeded is the number
\* of calls that returned without error, failed the number that returned an
\* error; all calls succeeding gives (T, 0), all failing gives (0, T) and an
\* error percentage of 100.
C8_CountsMatchCalls ==
    mainpc = "done" =>
       /\ succeeded = Cardinality({i \in Items : callResult[i] = "ok"})
       /\ failed = Cardinality({i \in Items : callResult[i] = "err"})
       /\ (\A i \in Items : callResult[i] = "ok") => succeeded = count /\ failed = 0
       /\ (\A i \in Items : callResult[i] = "err") =>
             succeeded = 0 /\ failed = count /\ errorPercentIs(100)

C8_Witness ==
    /\ mainpc = "done"
    /\ concurrency = 2
    /\ count = 3
    /\ \A i \in Items : callResult[i] = "err"
    /\ failed = 3

\* C9: a failed call aborts nothing: once some call has failed, the run still
\* reaches its end with every item of every worker called and all T outcomes
\* collected.
C9_FailureDoesNotAbort ==
    (\E i \in Items : callResult[i] = "err")
       ~> (/\ Terminated
           /\ \A i \in Items : callResult[i] # "none"
           /\ \A w \in Workers : received[w] = roundRobinShare(w, count)
           /\ succeeded + failed = count)

\* a finished run in which a worker's first call failed and its next succeeded
C9_Witness ==
    /\ Terminated
    /\ concurrency = 2
    /\ count = 3
    /\ callResult[0] = "err"
    /\ callResult[2] = "ok"
    /\ callResult[1] = "ok"

\* worker w is waiting to push an outcome on a full channel
sendBlocked(w) ==
    \/ wpc[w] = "sendOut" /\ Len(outputs[w]) >= outcomeCapacity
    \/ wpc[w] = "sendErr" /\ Len(errors[w]) >= outcomeCapacity

\* C10 as stated: whenever a worker is about to send an outcome, the channel
\* has free space.
C10_NeverBlocksOnSend == \A w \in Workers : ~ sendBlocked(w)

\* C10 amended: a channel never buffers more than C outcomes, so a worker can
\* find its channel full and wait, but every such wait ends: the send
\* completes once waitForCases, started after dispatch, has received a value.
C10_BlockedSendCompletes ==
    /\ [](\A w \in Workers :
             Len(outputs[w]) <= outcomeCapacity /\ Len(errors[w]) <= outcomeCapacity)
    /\ \A w \in 0 .. (MaxConcurrency - 1) :
          (w \in Workers /\ sendBlocked(w)) ~> (w \in Workers /\ ~ sendBlocked(w))

\* a worker waits on a full output channel while the dispatcher still sends
C10_Witness ==
    /\ mainpc = "send"
    /\ \E w \in Workers : sendBlocked(w)

\* an outcome sits in some output or error channel
outcomeBuffered == \E w \in Workers : outputs[w] # <<>> \/ errors[w] # <<>>

\* C11 as stated: collection runs concurrently with dispatch, so an outcome
\* that a worker has pushed can be received although the dispatcher has not
\* finished sending and closing.
C11_CollectsDuringDispatch == outcomeBuffered => ENABLED SelectValue

\* C11 amended: collection follows dispatch: waitForCases is called by the
\* dispatching goroutine itself once all T items are sent and all C inputs are
\* closed, so no outcome is received before that and outcomes pushed earlier
\* wait in the channels.
C11_CollectsAfterDispatch ==
    /\ (succeeded + failed > 0 \/ Len(cases) < concurrency + concurrency) =>
          /\ mainpc \in {"wait", "done"}
          /\ dispatched = count
          /\ \A w \in Workers : inClosed[w] = 1
    /\ mainpc \in {"spawn", "send", "close"} => ~ ENABLED SelectValue

\* an outcome waits in a channel while the dispatcher is still sending
C11_Witness ==
    /\ mainpc = "send"
    /\ outcomeBuffered

\* the requests worker w has taken whose remote call has not returned yet
inFlight(w) ==
    {i \in Items : seqCount(received[w], i) > 0 /\ callResult[i] = "none"}

\* C12: a worker has at most one remote call in flight, and the number of calls
\* in flight over all workers never exceeds the worker count C.
C12_OneCallPerWorker ==
    /\ \A w \in Workers :
          /\ Cardinality(inFlight(w)) <= 1
          /\ inFlight(w) # {} <=> wpc[w] = "call"
          /\ wpc[w] = "call" => inFlight(w) = {job[w]}
    /\ Cardinality({i \in Items : \E w \in Workers : i \in inFlight(w)}) <= concurrency

\* both workers have a call in flight, one of them with a further request queued
C12_Witness ==
    /\ concurrency = 2
    /\ wpc[0] = "call"
    /\ wpc[1] = "call"
    /\ inputs[0] # <<>>

\* C13: the dispatcher closes every input channel exactly once, only after all
\* the items of that worker have been sent, and never sends on a closed input.
C13_InputsClosedOnceAfterLastSend ==
    /\ mainpc # "panic"
    /\ \A w \in Workers :
          /\ inClosed[w] <= 1
          /\ inClosed[w] > 0 =>
                /\ dispatched = count
                /\ received[w] \o inputs[w] = roundRobinShare(w, count)
          /\ mainpc \in {"wait", "done"} => inClosed[w] = 1
          /\ mainpc = "close" => (inClosed[w] = 1 <=> w < mi)

C13_Witness ==
    /\ mainpc = "close"
    /\ concurrency = 2
    /\ mi = 1
    /\ inClosed[0] = 1
    /\ inClosed[1] = 0

------------------------------------------------------------------------------
\* The channel engine is not running (the other variants leave it alone).
EngineQuiet ==
    /\ mainpc = "idle"
    /\ mi = 0
    /\ inputs = <<>>
    /\ inClosed = <<>>
    /\ outputs = <<>>
    /\ outClosed = <<>>
    /\ errors = <<>>
    /\ errClosed = <<>>
    /\ wpc = <<>>
    /\ job = <<>>
    /\ callResult = <<>>
    /\ received = <<>>
    /\ cases = <<>>
    /\ middle = 0
    /\ succeededMessages = <<>>
    /\ failedMessages = <<>>

EngineIdle ==
    /\ count = 1
    /\ concurrency = 1
    /\ succeeded = 0
    /\ failed = 0
    /\ EngineQuiet

------------------------------------------------------------------------------
\* The atomic-cursor variant: create() starts Concurrency createRoutine
\* goroutines that claim batches from the shared cursor totalWrite.

Routines == 0 .. (CommandArgs.Concurrency - 1)

\* largest int32 (totalWrite, t, count and the flags are int32)
MaxInt32 == 2147483647
MinInt32 == -MaxInt32 - 1

\* int32 a + b and a - b for b > 0, wrapping around as the machine does
AddInt32(a, b) ==
    IF a > MaxInt32 - b THEN (a - MaxInt32 - 1) + (b - MaxInt32 - 1) ELSE a + b
SubInt32(a, b) ==
    IF a < MinInt32 + b THEN (a + MaxInt32 + 1) + ((MaxInt32 - b) + 1) ELSE a - b

\* parseFlags: Concurrency > 0, Count >= Concurrency, Frequency > 0, Bulk > 0,
\* Frequency % Bulk == 0
ValidCommandArgs(a) ==
    /\ a.Concurrency > 0
    /\ a.Count >= a.Concurrency
    /\ a.Frequency > 0
    /\ a.Bulk > 0
    /\ a.Frequency % a.Bulk = 0

\* if t > Count { count = t - Count } else { count = Bulk }
batchCount(tt) ==
    IF tt > CommandArgs.Count THEN SubInt32(tt, CommandArgs.Count)
                              ELSE CommandArgs.Bulk

\* a loop test that lets the batch starting at Count through
cursorExhausted_strict(tt) == SubInt32(tt, CommandArgs.Bulk) > CommandArgs.Count

\* t - Bulk >= Count: the cursor is past the population, leave the loop
cursorExhausted(tt) == SubInt32(tt, CommandArgs.Bulk) >= CommandArgs.Count

CursorInit ==
    /\ EngineIdle
    /\ BatchIdle
    /\ LineIdle
    /\ RerunIdle
    /\ SetupIdle
    /\ CommandArgs \in [Count : 1 .. MaxCursorCount,
                        Bulk : 1 .. MaxBulk,
                        Concurrency : 1 .. MaxRoutines,
                        Frequency : 1 .. MaxFrequency]
    /\ ValidCommandArgs(CommandArgs)
    /\ last = -1
    /\ totalWrite = 0
    /\ createpc = "add"
    /\ wg = 0
    /\ rpc = [r \in Routines |-> "unborn"]
    /\ t = [r \in Routines |-> 0]
    /\ batches = [r \in Routines |-> <<>>]

\* a wait group that is told of one goroutine only
WgAdd_one ==
    /\ createpc = "add"
    /\ wg' = wg + 1
    /\ last' = 0
    /\ createpc' = "go"
    /\ UNCHANGED <<engineVars, batchVars, lineVars, setupVars, rerunVars, CommandArgs, totalWrite, rpc, t, batches>>

\* wg.Add(int(CommandArgs.Concurrency)); last = time.Now()
WgAdd ==
    /\ createpc = "add"
    /\ wg' = wg + CommandArgs.Concurrency
    /\ last' = 0
    /\ createpc' = "go"
    /\ UNCHANGED <<engineVars, batchVars, lineVars, setupVars, rerunVars, CommandArgs, totalWrite, rpc, t, batches>>

\* for i := int32(0); i < Concurrency; i++ { go createRoutine(client, &wg) }
GoRoutines ==
    /\ createpc = "go"
    /\ LET i == Cardinality({r \in Routines : rpc[r] # "unborn"}) IN
        /\ rpc' = [rpc EXCEPT ![i] = "claim"]
        /\ createpc' = IF i + 1 < CommandArgs.Concurrency THEN "go" ELSE "wait"
    /\ UNCHANGED <<engineVars, batchVars, lineVars, setupVars, rerunVars, last, CommandArgs, totalWrite, wg, t, batches>>

\* wg.Wait()
WgWait ==
    /\ createpc = "wait"
    /\ wg = 0
    /\ createpc' = "returned"
    /\ UNCHANGED <<engineVars, batchVars, lineVars, setupVars, rerunVars, last, CommandArgs, totalWrite, wg, rpc, t, batches>>

\* if t = atomic.AddInt32(&totalWrite, Bulk); t-Bulk >= Count { break }
Claim(r) ==
    /\ rpc[r] = "claim"
    /\ totalWrite' = AddInt32(totalWrite, CommandArgs.Bulk)
    /\ t' = [t EXCEPT ![r] = totalWrite']
    /\ rpc' = [rpc EXCEPT ![r] = IF cursorExhausted(totalWrite') THEN "flush" ELSE "submit"]
    /\ UNCHANGED <<engineVars, batchVars, lineVars, setupVars, rerunVars, last, CommandArgs, createpc, wg, batches>>

\* build count documents and bulkRequest.Do(); on an error the loop continues
\* with the next claim, otherwise it reaches the progress test
\* if t%Frequency == 0
Submit(r) ==
    /\ rpc[r] = "submit"
    /\ batches' = [batches EXCEPT ![r] = Append(@, batchCount(t[r]))]
    /\ \E ok \in BOOLEAN :
          rpc' = [rpc EXCEPT ![r] =
                    IF ok /\ t[r] % CommandArgs.Frequency = 0 THEN "readLast"
                                                               ELSE "claim"]
    /\ UNCHANGED <<engineVars, batchVars, lineVars, setupVars, rerunVars, last, CommandArgs, totalWrite, createpc, wg, t>>

\* fmt.Printf("INSERT %d %f\n", t, ... time.Since(last) ...): last is read
ReadLast(r) ==
    /\ rpc[r] = "readLast"
    /\ rpc' = [rpc EXCEPT ![r] = "writeLast"]
    /\ UNCHANGED <<engineVars, batchVars, lineVars, setupVars, rerunVars, last, CommandArgs, totalWrite, createpc, wg, t, batches>>

\* last = time.Now()
WriteLast(r) ==
    /\ rpc[r] = "writeLast"
    /\ last' = 0
    /\ rpc' = [rpc EXCEPT ![r] = "claim"]
    /\ UNCHANGED <<engineVars, batchVars, lineVars, setupVars, rerunVars, CommandArgs, totalWrite, createpc, wg, t, batches>>

\* ensureWritten(client): the flush succeeds, or its error panics
Flush(r) ==
    /\ rpc[r] = "flush"
    /\ \E ok \in BOOLEAN :
          rpc' = [rpc EXCEPT ![r] = IF ok THEN "wgdone" ELSE "panic"]
    /\ UNCHANGED <<engineVars, batchVars, lineVars, setupVars, rerunVars, last, CommandArgs, totalWrite, createpc, wg, t, batches>>

\* wg.Done()
WgDone(r) ==
    /\ rpc[r] = "wgdone"
    /\ wg' = wg - 1
    /\ rpc' = [rpc EXCEPT ![r] = "exited"]
    /\ UNCHANGED <<engineVars, batchVars, lineVars, setupVars, rerunVars, last, CommandArgs, totalWrite, createpc, t, batches>>

CursorNext ==
    \/ WgAdd
    \/ GoRoutines
    \/ WgWait
    \/ \E r \in Routines : Claim(r)
    \/ \E r \in Routines : Submit(r)
    \/ \E r \in Routines : ReadLast(r)
    \/ \E r \in Routines : WriteLast(r)
    \/ \E r \in Routines : Flush(r)
    \/ \E r \in Routines : WgDone(r)

CursorSpec == CursorInit /\ [][CursorNext]_vars

RECURSIVE seqSum(_)
seqSum(q) == IF q = <<>> THEN 0 ELSE Head(q) + seqSum(Tail(q))

RECURSIVE submittedBy(_)
\* number of documents the routines 0 .. n-1 have put into bulk requests
submittedBy(n) ==
    IF n = 0 THEN 0 ELSE seqSum(batches[n - 1]) + submittedBy(n - 1)

\* C14: when create returns, the batch sizes submitted by all workers add up
\* to Count.
C14_BatchesCoverCount ==
    createpc = "returned" => submittedBy(CommandArgs.Concurrency) = CommandArgs.Count

------------------------------------------------------------------------------
\* Bulk create mode: createByBatch sends the count records in one bulk request
\* and tallies the per-item report.

\* HTTP statuses a bulk item reports: created, version conflict
ItemStatuses == {201, 409}

\* result.Status >= 200 && result.Status <= 299
statusOK(st) == st >= 200 /\ st <= 299

\* response.Succeeded() / response.Failed(): the items of any action whose
\* status is / is not 2xx
Succeeded(resp) == SelectSeq(resp.Items, LAMBDA it : statusOK(it.Status))
Failed(resp) == SelectSeq(resp.Items, LAMBDA it : ~ statusOK(it.Status))

\* the reports bulk.Do() can return for count create requests: a transport
\* error, or one item per request, all under the key of the action the
\* service reports, with Errors set when some item failed
BulkResponses ==
    {[err |-> TRUE, Errors |-> FALSE, Items |-> <<>>]}
    \cup
    {[err |-> FALSE,
      Errors |-> (\E k \in 1 .. count : ~ statusOK(sts[k])),
      Items |-> [k \in 1 .. count |-> [key |-> ky, Status |-> sts[k]]]] :
        ky \in {"index", "create"}, sts \in [1 .. count -> ItemStatuses]}

BatchInit ==
    /\ count \in 1 .. MaxBatchCount
    /\ concurrency = 1
    /\ succeeded = 0
    /\ failed = 0
    /\ EngineQuiet
    /\ CursorIdle
    /\ LineIdle
    /\ RerunIdle
    /\ SetupIdle
    /\ batchpc = "do"
    /\ response = <<>>
    /\ bi = 0
    /\ datafile = <<>>

batchFrame ==
    <<concurrency, mainpc, mi, chanVars, workerVars, cases, middle,
      succeededMessages, failedMessages, cursorVars, lineVars, setupVars, rerunVars>>

\* response, err := bulk.Do() and the branch taken on its result
BulkDo ==
    /\ batchpc = "do"
    /\ \E resp \in BulkResponses :
        /\ response' = resp
        /\ IF resp.err
              THEN /\ succeeded' = 0
                   /\ failed' = count
                   /\ batchpc' = "returned"
                   /\ UNCHANGED datafile
              ELSE IF resp.Errors
              THEN /\ succeeded' = Len(Succeeded(resp))
                   /\ failed' = Len(Failed(resp))
                   /\ batchpc' = "items"
                   /\ UNCHANGED datafile
              ELSE /\ datafile' = datafile \o [k \in 1 .. count |-> k - 1]
                   /\ batchpc' = "flush"
                   /\ UNCHANGED <<succeeded, failed>>
    /\ bi' = 0
    /\ UNCHANGED <<count, batchFrame>>

\* one iteration of  for i, item := range response.Items { result := item["index"] ... }
TallyItem ==
    /\ batchpc = "items"
    /\ LET item == response.Items[bi + 1] IN
        IF item.key = "index"
           THEN IF statusOK(item.Status)
                   THEN /\ datafile' = Append(datafile, bi)
                        /\ succeeded' = succeeded + 1
                        /\ UNCHANGED failed
                   ELSE /\ failed' = failed + 1
                        /\ UNCHANGED <<succeeded, datafile>>
           ELSE UNCHANGED <<succeeded, failed, datafile>>
    /\ bi' = bi + 1
    /\ batchpc' = IF bi + 1 < Len(response.Items) THEN "items" ELSE "flush"
    /\ UNCHANGED <<count, response, batchFrame>>

\* ensureWritten(client), then the assignments that follow it
BatchFlush ==
    /\ batchpc = "flush"
    /\ \E ok \in BOOLEAN :
        IF ~ ok
           THEN /\ batchpc' = "panic"
                /\ UNCHANGED <<succeeded, failed>>
           ELSE /\ batchpc' = "returned"
                /\ IF response.Errors
                      THEN UNCHANGED <<succeeded, failed>>
                      ELSE /\ succeeded' = count
                           /\ failed' = 0
    /\ UNCHANGED <<count, response, bi, datafile, batchFrame>>

BatchNext == BulkDo \/ TallyItem \/ BatchFlush

BatchSpec == BatchInit /\ [][BatchNext]_vars

\* C15: whatever bulk.Do() returns, createByBatch returns counts with
\* succeeded + failed = count.
C15_BatchCountsAddUp ==
    batchpc = "returned" => succeeded + failed = count

\* the records whose create the bulk report confirms
confirmedCreates ==
    IF response.err THEN <<>>
    ELSE SelectSeq([k \in 1 .. count |-> k - 1],
                   LAMBDA i : statusOK(response.Items[i + 1].Status))

\* C16: when the create run is over, the data file holds exactly the records
\* whose create succeeded, each once, and as many as the succeeded count.
C16_LogHoldsConfirmedCreates ==
    batchpc = "returned" =>
       /\ datafile = confirmedCreates
       /\ Len(datafile) = succeeded

------------------------------------------------------------------------------
\* Query sampling: getLine reads 300 bytes at a random offset of the data
\* file and parses the first, else the second, line of the buffer.  Strings
\* are sequences of one-character strings.

\* buf []byte = make([]byte, 300)
BufSize == 300
\* len(results[2]) != 128
ValueLen == 128

chars(ch, n) == [k \in 1 .. n |-> ch]

\* The lines a data file is made of: field_name:field_index:value, with a
\* one-digit or a two-digit index and a 128-character value, and a line whose
\* value is one character short.
LineKinds ==
    { [name |-> <<"d", "a", "t", "a", "3">>, index |-> <<"7">>,
       value |-> chars("a", ValueLen)],
      [name |-> <<"d", "a", "t", "a", "0">>, index |-> <<"1", "2">>,
       value |-> chars("b", ValueLen)],
      [name |-> <<"d", "a", "t", "a", "3">>, index |-> <<"5">>,
       value |-> chars("c", ValueLen - 1)] }

lineBytes(l) == l.name \o <<":">> \o l.index \o <<":">> \o l.value \o <<"\n">>

RECURSIVE concatLines(_)
concatLines(ls) ==
    IF ls = <<>> THEN <<>> ELSE lineBytes(Head(ls)) \o concatLines(Tail(ls))

\* the content of the data file
fileBytes == concatLines(fileLines)

\* stat.Size()
fileSize == Len(fileBytes)

RECURSIVE linesUpTo(_)
linesUpTo(n) ==
    IF n = 0 THEN {<<>>}
    ELSE LET shorter == linesUpTo(n - 1) IN
         shorter \cup {Append(ls, k) : ls \in {q \in shorter : Len(q) = n - 1},
                                       k \in LineKinds}

\* position of the first ch in b at or after from, 0 if there is none
indexFrom(b, ch, from) ==
    LET hits == {k \in from .. Len(b) : b[k] = ch} IN
    IF hits = {} THEN 0 ELSE CHOOSE k \in hits : \A j \in hits : k <= j

\* bufio.Reader.ReadLine on b from position from: the bytes up to the next
\* newline, or the rest of the buffer; io.EOF when nothing is left
ReadLine(b, from) ==
    IF from > Len(b)
       THEN [err |-> TRUE, line |-> <<>>, next |-> from]
       ELSE LET nl == indexFrom(b, "\n", from) IN
            IF nl = 0
               THEN [err |-> FALSE, line |-> SubSeq(b, from, Len(b)), next |-> Len(b) + 1]
               ELSE [err |-> FALSE, line |-> SubSeq(b, from, nl - 1), next |-> nl + 1]

\* strings.SplitN(line, ":", 3)
SplitN3(line) ==
    LET c1 == indexFrom(line, ":", 1) IN
    IF c1 = 0 THEN <<line>>
    ELSE LET c2 == indexFrom(line, ":", c1 + 1) IN
         IF c2 = 0
            THEN <<SubSeq(line, 1, c1 - 1), SubSeq(line, c1 + 1, Len(line))>>
            ELSE <<SubSeq(line, 1, c1 - 1), SubSeq(line, c1 + 1, c2 - 1),
                   SubSeq(line, c2 + 1, Len(line))>>

\* a check that only counts the fields
rejected_fieldCountOnly(results) == Len(results) # 3

\* len(results) != 3 || len(results[2]) != 128
rejected(results) == Len(results) # 3 \/ Len(results[3]) # ValueLen

\* "data" + results[1]
keyOf(results) == <<"d", "a", "t", "a">> \o results[2]

\* a random source that accepts an empty range
int63nPanics_never(n) == FALSE

\* rand.Int63n(n) panics unless n > 0
int63nPanics(n) == n <= 0

\* datafile.ReadAt(buf, off) fills buf or fails with io.EOF
readAtFails(off) == off + BufSize > fileSize

LineInit ==
    /\ EngineIdle
    /\ CursorIdle
    /\ BatchIdle
    /\ SetupIdle
    /\ RerunIdle
    /\ fileLines \in linesUpTo(MaxLines)
    /\ linepc = "stat"
    /\ offset = 0
    /\ examined = <<>>
    /\ lineKey = <<>>
    /\ lineValue = <<>>
    /\ lineErr = "none"
    /\ linesRead = 0

lineFrame == <<engineVars, cursorVars, batchVars, setupVars, rerunVars, fileLines>>

\* stat, err = datafile.Stat(); size = stat.Size()
Stat ==
    /\ linepc = "stat"
    /\ \E ok \in BOOLEAN :
        IF ok THEN /\ linepc' = "loop"
                   /\ UNCHANGED lineErr
              ELSE /\ linepc' = "failed"
                   /\ lineErr' = "stat"
    /\ UNCHANGED <<lineFrame, offset, examined, lineKey, lineValue, linesRead>>

\* an iteration that goes on to a third line of the buffer
Attempt_thirdLine ==
    /\ linepc = "loop"
    /\ IF int63nPanics(fileSize)
          THEN /\ linepc' = "panic"
               /\ lineErr' = "Int63n"
               /\ examined' = <<>>
               /\ UNCHANGED <<offset, lineKey, lineValue, linesRead>>
          ELSE \E off \in 0 .. (IF fileSize > 0 THEN fileSize - 1 ELSE 0) :
               /\ IF readAtFails(off)
                     THEN /\ linepc' = "failed"
                          /\ lineErr' = "EOF"
                          /\ examined' = <<>>
                          /\ linesRead' = 0
                          /\ UNCHANGED <<lineKey, lineValue>>
                     ELSE LET buf == SubSeq(fileBytes, off + 1, off + BufSize)
                              first == ReadLine(buf, 1)
                              second == ReadLine(buf, first.next)
                              r1 == SplitN3(first.line)
                              r2 == SplitN3(second.line)
                              third == ReadLine(buf, second.next)
                              r3 == SplitN3(third.line)
                          IN
                          /\ UNCHANGED lineErr
                          /\ IF first.err
                                THEN /\ linepc' = "loop"
                                     /\ examined' = <<>>
                                     /\ linesRead' = 1
                                     /\ UNCHANGED <<lineKey, lineValue>>
                                ELSE IF ~ rejected(r1)
                                THEN /\ linepc' = "returned"
                                     /\ examined' = <<first.line>>
                                     /\ linesRead' = 1
                                     /\ lineKey' = keyOf(r1)
                                     /\ lineValue' = r1[3]
                                ELSE IF second.err
                                THEN /\ linepc' = "loop"
                                     /\ examined' = <<>>
                                     /\ linesRead' = 2
                                     /\ UNCHANGED <<lineKey, lineValue>>
                                ELSE IF ~ rejected(r2)
                                THEN /\ linepc' = "returned"
                                     /\ examined' = <<first.line, second.line>>
                                     /\ linesRead' = 2
                                     /\ lineKey' = keyOf(r2)
                                     /\ lineValue' = r2[3]
                                ELSE IF ~ third.err /\ ~ rejected(r3)
                                THEN /\ linepc' = "returned"
                                     /\ examined' = <<first.line, second.line, third.line>>
                                     /\ linesRead' = 3
                                     /\ lineKey' = keyOf(r3)
                                     /\ lineValue' = r3[3]
                                ELSE /\ linepc' = "loop"
                                     /\ examined' = <<>>
                                     /\ linesRead' = 3
                                     /\ UNCHANGED <<lineKey, lineValue>>
               /\ offset' = (IF linepc' = "loop" THEN offset ELSE off)
    /\ UNCHANGED lineFrame

\* one iteration of the for loop of getLine; offset and examined record the
\* iteration that ended the loop (a continue discards its buffer and lines)
Attempt ==
    /\ linepc = "loop"
    /\ IF int63nPanics(fileSize)
          THEN /\ linepc' = "panic"
               /\ lineErr' = "Int63n"
               /\ examined' = <<>>
               /\ UNCHANGED <<offset, lineKey, lineValue, linesRead>>
          ELSE \E off \in 0 .. (IF fileSize > 0 THEN fileSize - 1 ELSE 0) :
               /\ IF readAtFails(off)
                     THEN /\ linepc' = "failed"
                          /\ lineErr' = "EOF"
                          /\ examined' = <<>>
                          /\ linesRead' = 0
                          /\ UNCHANGED <<lineKey, lineValue>>
                     ELSE LET buf == SubSeq(fileBytes, off + 1, off + BufSize)
                              first == ReadLine(buf, 1)
                              second == ReadLine(buf, first.next)
                              r1 == SplitN3(first.line)
                              r2 == SplitN3(second.line)
                          IN
                          /\ UNCHANGED lineErr
                          /\ IF first.err
                                THEN /\ linepc' = "loop"
                                     /\ examined' = <<>>
                                     /\ linesRead' = 1
                                     /\ UNCHANGED <<lineKey, lineValue>>
                                ELSE IF ~ rejected(r1)
                                THEN /\ linepc' = "returned"
                                     /\ examined' = <<first.line>>
                                     /\ linesRead' = 1
                                     /\ lineKey' = keyOf(r1)
                                     /\ lineValue' = r1[3]
                                ELSE IF second.err
                                THEN /\ linepc' = "loop"
                                     /\ examined' = <<>>
                                     /\ linesRead' = 2
                                     /\ UNCHANGED <<lineKey, lineValue>>
                                ELSE IF ~ rejected(r2)
                                THEN /\ linepc' = "returned"
                                     /\ examined' = <<first.line, second.line>>
                                     /\ linesRead' = 2
                                     /\ lineKey' = keyOf(r2)
                                     /\ lineValue' = r2[3]
                                ELSE /\ linepc' = "loop"
                                     /\ examined' = <<>>
                                     /\ linesRead' = 2
                                     /\ UNCHANGED <<lineKey, lineValue>>
               /\ offset' = (IF linepc' = "loop" THEN offset ELSE off)
    /\ UNCHANGED lineFrame

LineNext == Stat \/ Attempt

LineSpec == LineInit /\ [][LineNext]_vars

C18_BadSampleIsRecovered ==
    ~ (linepc = "failed" /\ lineErr = "EOF")

\* C19: on an empty data file getLine fails in its first iteration, at
\* rand.Int63n(0), before any read or parse; it never retries and never
\* returns a key/value pair.
C19_EmptyFileFailsFast ==
    /\ [][(fileLines = <<>> /\ linepc = "loop") =>
             (linepc' = "panic" /\ lineErr' = "Int63n" /\ examined' = <<>>)]_vars
    /\ [](fileLines = <<>> =>
             /\ linepc \in {"stat", "loop", "panic", "failed"}
             /\ linepc = "failed" => lineErr = "stat"
             /\ lineKey = <<>>
             /\ lineValue = <<>>)

C19_Witness ==
    /\ fileLines = <<>>
    /\ linepc = "panic"
    /\ lineErr = "Int63n"

------------------------------------------------------------------------------
\* Start-up: main builds the client, pings, makes sure the index exists,
\* updates the mappings, opens the data file and only then runs the command
\* (searchParallel samples its count queries before it dispatches anything).
\* remoteCalls counts the index, bulk and search calls issued; failedStep names
\* the start-up step that failed; a panic ends the process with status 2,
\* os.Exit(1) with status 1.

SetupInit ==
    /\ count \in 1 .. MaxCount
    /\ concurrency = 1
    /\ succeeded = 0
    /\ failed = 0
    /\ EngineQuiet
    /\ CursorIdle
    /\ BatchIdle
    /\ LineIdle
    /\ RerunIdle
    /\ setuppc = "newClient"
    /\ command \in {"create", "search"}
    /\ bulk \in BOOLEAN
    /\ indexExists \in BOOLEAN
    /\ sampled = 0
    /\ failedStep = "none"
    /\ exitStatus = -1
    /\ remoteCalls = 0
    /\ variant = "current"
    /\ printed = {}

setupFrame == <<engineVars, cursorVars, batchVars, lineVars, rerunVars, command, bulk,
                variant, printed>>

\* panic(err) in a start-up step
setupPanic(step) ==
    /\ setuppc' = "exited"
    /\ failedStep' = step
    /\ exitStatus' = 2

\* fmt.Fprintf(os.Stderr, ...); os.Exit(1)
setupExit1(step) ==
    /\ setuppc' = "exited"
    /\ failedStep' = step
    /\ exitStatus' = 1

setupGoes(next) ==
    /\ setuppc' = next
    /\ UNCHANGED <<failedStep, exitStatus>>

\* client, err := elastic.NewClient(clientOpts...)
NewClient ==
    /\ setuppc = "newClient"
    /\ \E ok \in BOOLEAN :
        IF ok THEN setupGoes("ping") ELSE setupPanic("newClient")
    /\ UNCHANGED <<setupFrame, indexExists, sampled, remoteCalls>>

\* showElasticsearchInfo
Ping ==
    /\ setuppc = "ping"
    /\ \E ok \in BOOLEAN :
        IF ok THEN setupGoes("indexExists") ELSE setupPanic("ping")
    /\ UNCHANGED <<setupFrame, indexExists, sampled, remoteCalls>>

\* ensureIndexExists: client.IndexExists(indexName).Do()
IndexExists ==
    /\ setuppc = "indexExists"
    /\ \E ok \in BOOLEAN :
        IF ok THEN setupGoes(IF indexExists THEN "putMapping" ELSE "createIndex")
              ELSE setupPanic("indexExists")
    /\ UNCHANGED <<setupFrame, indexExists, sampled, remoteCalls>>

\* an index creation whose missing acknowledgement is only reported
CreateIndex_ignoresAcknowledged ==
    /\ setuppc = "createIndex"
    /\ \E r \in {"ok", "error", "notAcknowledged"} :
        CASE r = "ok" -> setupGoes("putMapping") /\ indexExists' = TRUE
          [] r = "error" -> setupPanic("createIndex") /\ UNCHANGED indexExists
          [] r = "notAcknowledged" ->
                /\ setuppc' = "putMapping"
                /\ failedStep' = "createIndex"
                /\ UNCHANGED <<exitStatus, indexExists>>
    /\ UNCHANGED <<setupFrame, sampled, remoteCalls>>

\* ensureIndexExists: client.CreateIndex(indexName).Do()
CreateIndex ==
    /\ setuppc = "createIndex"
    /\ \E r \in {"ok", "error", "notAcknowledged"} :
        CASE r = "ok" -> setupGoes("putMapping") /\ indexExists' = TRUE
          [] r = "error" -> setupPanic("createIndex") /\ UNCHANGED indexExists
          [] r = "notAcknowledged" -> setupExit1("createIndex") /\ UNCHANGED indexExists
    /\ UNCHANGED <<setupFrame, sampled, remoteCalls>>

\* updateIndexMappings
PutMapping ==
    /\ setuppc = "putMapping"
    /\ \E r \in {"ok", "error", "notAcknowledged"} :
        CASE r = "ok" -> setupGoes("openFile")
          [] r = "error" -> setupPanic("putMapping")
          [] r = "notAcknowledged" -> setupExit1("putMapping")
    /\ UNCHANGED <<setupFrame, indexExists, sampled, remoteCalls>>

\* datafile, err = os.OpenFile(dataFilePath, ...)
OpenFile ==
    /\ setuppc = "openFile"
    /\ \E ok \in BOOLEAN :
        IF ok THEN setupGoes(IF command = "search" THEN "sample" ELSE "work")
              ELSE setupPanic("openFile")
    /\ UNCHANGED <<setupFrame, indexExists, sampled, remoteCalls>>

\* searchParallel: key, value, err := getLine(datafile), count times
Sample ==
    /\ setuppc = "sample"
    /\ IF sampled < count
          THEN \E ok \in BOOLEAN :
                 IF ok THEN /\ sampled' = sampled + 1
                            /\ UNCHANGED <<setuppc, failedStep, exitStatus>>
                       ELSE /\ setupPanic("sample")
                            /\ UNCHANGED sampled
          ELSE /\ setupGoes("work")
               /\ UNCHANGED sampled
    /\ UNCHANGED <<setupFrame, indexExists, remoteCalls>>

\* the calls of the command: one bulk call, or one index or search call per
\* work item
callsOfCommand == IF command = "create" /\ bulk THEN 1 ELSE count

\* createByBatch, createParallel or searchParallel issues its next call
Work ==
    /\ setuppc = "work"
    /\ remoteCalls < callsOfCommand
    /\ remoteCalls' = remoteCalls + 1
    /\ UNCHANGED <<setupFrame, setuppc, indexExists, sampled, failedStep, exitStatus>>

\* main returns after the report
Finish ==
    /\ setuppc = "work"
    /\ remoteCalls = callsOfCommand
    /\ setuppc' = "exited"
    /\ exitStatus' = 0
    /\ UNCHANGED <<setupFrame, indexExists, sampled, failedStep, remoteCalls>>

SetupNext ==
    \/ NewClient
    \/ Ping
    \/ IndexExists
    \/ CreateIndex
    \/ PutMapping
    \/ OpenFile
    \/ Sample
    \/ Work
    \/ Finish

SetupSpec == SetupInit /\ [][SetupNext]_vars

\* C20: when a start-up step fails (client construction, ping, index check,
\* index creation, mapping update, opening the data file, sampling a search
\* query) the process has ended with a non-zero status, no work item was
\* dispatched and no index, bulk or search call was issued.
C20_SetupFailureAbortsBeforeWork ==
    /\ failedStep # "none" =>
          /\ setuppc = "exited"
          /\ exitStatus \in {1, 2}
          /\ remoteCalls = 0
    /\ remoteCalls > 0 =>
          /\ failedStep = "none"
          /\ command = "search" => sampled = count

\* index creation was not acknowledged and the process left with status 1
C20_Witness ==
    /\ failedStep = "createIndex"
    /\ exitStatus = 1
    /\ setuppc = "exited"
    /\ ~ indexExists

------------------------------------------------------------------------------
\* Flags and report: parseFlags validates the flags, main runs the selected
\* command and prints the report.  The sources hold two parseFlags: the
\* current one (main.go 347-390) and an earlier one (main.go 664-706,
\* part_000 225-272) with the main of part_000 25-79.

Commands == {"create", "search", "query", ""}

\* if command != "create" && command != "search" (current);
\* if command != "create" && command != "query" (earlier)
commandAccepted(v, cmd) ==
    IF v = "current" THEN cmd = "create" \/ cmd = "search"
                     ELSE cmd = "create" \/ cmd = "query"

FlagsInit ==
    /\ count \in -1 .. MaxCount
    /\ concurrency \in -1 .. MaxConcurrency
    /\ succeeded = 0
    /\ failed = 0
    /\ EngineQuiet
    /\ CursorIdle
    /\ BatchIdle
    /\ LineIdle
    /\ RerunIdle
    /\ setuppc = "parseFlags"
    /\ command \in Commands
    /\ bulk \in BOOLEAN
    /\ indexExists = TRUE
    /\ sampled = 0
    /\ failedStep = "none"
    /\ exitStatus = -1
    /\ remoteCalls = 0
    /\ variant \in {"current", "earlier"}
    /\ printed = {}

flagsFrame == <<concurrency, mainpc, mi, chanVars, workerVars, cases, middle,
                succeededMessages, failedMessages, cursorVars, batchVars,
                lineVars, rerunVars, command, bulk, indexExists, sampled, remoteCalls,
                variant>>

\* parseFlags: os.Exit(1) on a bad -command, -concurrency or -count
ParseFlags ==
    /\ setuppc = "parseFlags"
    /\ IF commandAccepted(variant, command) /\ ValidFlags(count, concurrency)
          THEN setupGoes("run")
          ELSE setupExit1("parseFlags")
    /\ UNCHANGED <<flagsFrame, count, succeeded, failed, printed>>

\* what the selected command can return: createParallel and searchParallel
\* count every item once; createByBatch counts the items reported under
\* "index" a second time; no command selected leaves both at 0
commandResults ==
    IF command = "create" /\ bulk
       THEN UNION {{<<a + a2, (count - a) + b2>> :
                        a2 \in 0 .. a, b2 \in 0 .. (count - a)} :
                   a \in 0 .. count}
    ELSE IF command = "create" \/ (command = "search" /\ variant = "current")
       THEN {<<a, count - a>> : a \in 0 .. count}
    ELSE {<<0, 0>>}

\* main: the if/else chain that runs the command
RunCommand ==
    /\ setuppc = "run"
    /\ IF command = "search" /\ variant = "earlier"
          THEN /\ setupPanic("run")
               /\ UNCHANGED <<succeeded, failed>>
          ELSE /\ \E p \in commandResults :
                    /\ succeeded' = p[1]
                    /\ failed' = p[2]
               /\ setupGoes("report")
    /\ UNCHANGED <<flagsFrame, count, printed>>

\* if failed > 0 { Printf("Error percent: ...") }
\* if succeeded > 0 { Printf("Benchmark: ...") }
reportLines ==
    (IF failed > 0 THEN {"Error percent"} ELSE {})
       \cup (IF succeeded > 0 THEN {"Benchmark"} ELSE {})

\* main prints the report and returns
Report ==
    /\ setuppc = "report"
    /\ printed' = reportLines
    /\ setuppc' = "exited"
    /\ exitStatus' = 0
    /\ UNCHANGED <<flagsFrame, count, succeeded, failed, failedStep>>

FlagsNext == ParseFlags \/ RunCommand \/ Report

FlagsSpec == FlagsInit /\ [][FlagsNext]_vars

\* C21: the throughput line is printed iff succeeded > 0, the error
\* percentage line iff failed > 0, and count, the denominator of the error
\* percentage, is not zero in any run that passed flag validation.
C21_ReportToleratesZeroCounts ==
    /\ setuppc \in {"run", "report"} => count > 0
    /\ (setuppc = "exited" /\ exitStatus = 0) =>
          /\ count > 0
          /\ ("Benchmark" \in printed) <=> (succeeded > 0)
          /\ ("Error percent" \in printed) <=> (failed > 0)
    /\ (setuppc # "exited" \/ exitStatus # 0) => printed = {}

\* a run without any success: only the error percentage is printed
C21_Witness ==
    /\ setuppc = "exited"
    /\ exitStatus = 0
    /\ succeeded = 0
    /\ failed = count
    /\ printed = {"Error percent"}

\* C28: -command is accepted iff it is 'create' or 'search': any other value
\* ends parseFlags with status 1 before anything else runs, and both 'create'
\* and 'search' pass validation (with valid -count and -concurrency) and
\* select a workload.
C28_CommandCreateOrSearch ==
    setuppc # "parseFlags" =>
       /\ command \notin {"create", "search"} =>
             (setuppc = "exited" /\ exitStatus = 1 /\ failedStep = "parseFlags")
       /\ (command \in {"create", "search"} /\ ValidFlags(count, concurrency)) =>
             failedStep = "none"

------------------------------------------------------------------------------
\* waitForCases called a second time, on a second channel set that its own
\* producers feed and close.

RerunInit ==
    /\ CursorIdle /\ BatchIdle /\ LineIdle /\ SetupIdle
    /\ run = 1
    /\ concurrency \in 1 .. MaxConcurrency
    /\ count = concurrency
    /\ mainpc = "wait"
    /\ mi = 0
    /\ inputs = [w \in Workers |-> <<>>]
    /\ inClosed = [w \in Workers |-> 1]
    /\ outputs = [w \in Workers |-> <<>>]
    /\ outClosed = [w \in Workers |-> 0]
    /\ errors = [w \in Workers |-> <<>>]
    /\ errClosed = [w \in Workers |-> 0]
    /\ wpc = [w \in Workers |-> "producer"]
    /\ job = [w \in Workers |-> NoJob]
    /\ callResult = [i \in Items |-> "none"]
    /\ received = [w \in Workers |-> <<>>]
    /\ cases = prepareCases(concurrency)
    /\ middle = concurrency
    /\ succeeded = 0
    /\ failed = 0
    /\ succeededMessages = <<>>
    /\ failedMessages = <<>>

\* a second call that goes on counting in package-level counters
Rerun_keepsCounts ==
    /\ mainpc = "done"
    /\ run = 1
    /\ run' = 2
    /\ outputs' = [w \in Workers |-> <<>>]
    /\ outClosed' = [w \in Workers |-> 0]
    /\ errors' = [w \in Workers |-> <<>>]
    /\ errClosed' = [w \in Workers |-> 0]
    /\ cases' = prepareCases(concurrency)
    /\ middle' = concurrency
    /\ succeededMessages' = <<>>
    /\ failedMessages' = <<>>
    /\ mainpc' = "wait"
    /\ UNCHANGED <<cursorVars, batchVars, lineVars, setupVars, count, concurrency,
                   mi, inputs, inClosed, workerVars, succeeded, failed>>

\* prepareChannels and prepareCases build a new channel set and waitForCases
\* is entered again: middle := concurrency, succeeded = 0, failed = 0 and two
\* new slices
Rerun ==
    /\ mainpc = "done"
    /\ run = 1
    /\ run' = 2
    /\ outputs' = [w \in Workers |-> <<>>]
    /\ outClosed' = [w \in Workers |-> 0]
    /\ errors' = [w \in Workers |-> <<>>]
    /\ errClosed' = [w \in Workers |-> 0]
    /\ cases' = prepareCases(concurrency)
    /\ middle' = concurrency
    /\ succeeded' = 0
    /\ succeededMessages' = <<>>
    /\ failed' = 0
    /\ failedMessages' = <<>>
    /\ mainpc' = "wait"
    /\ UNCHANGED <<cursorVars, batchVars, lineVars, setupVars, count, concurrency,
                   mi, inputs, inClosed, workerVars>>

RerunNext == MuxNext \/ Rerun

RerunSpec == RerunInit /\ [][RerunNext]_vars /\ WF_vars(SelectValue \/ SelectClosed)

\* the values of a list, as a set
valuesOf(q) == {q[k] : k \in 1 .. Len(q)}

\* C22: the result of each call of waitForCases is made of the values sent on
\* the channel set of that call and of nothing else: the counts are the
\* lengths of the lists and the lists hold exactly the values sent in this
\* call (the producers number them 0, 1, ...), each once, whether the call is
\* the first or the second.
C22_RunsDoNotInterfere ==
    mainpc = "done" =>
       /\ succeeded = Len(succeededMessages)
       /\ failed = Len(failedMessages)
       /\ valuesOf(succeededMessages) \cap valuesOf(failedMessages) = {}
       /\ valuesOf(succeededMessages) \cup valuesOf(failedMessages)
             = 0 .. (Len(succeededMessages) + Len(failedMessages) - 1)
       /\ Cardinality(valuesOf(succeededMessages)) = Len(succeededMessages)
       /\ Cardinality(valuesOf(failedMessages)) = Len(failedMessages)

\* a second call has returned one success and one failure
C22_Witness ==
    /\ run = 2
    /\ mainpc = "done"
    /\ succeeded = 1
    /\ failed = 1

------------------------------------------------------------------------------
\* C23: the dispatcher never blocks on a send: no input channel ever holds
\* more than its capacity 1 + (T-1)/C, and whenever the dispatcher is about to
\* send item i the channel of worker i mod C has room, whatever the workers
\* have or have not taken; so all T sends and C closes complete.
C23_DispatcherNeverBlocks ==
    /\ \A w \in Workers : Len(inputs[w]) <= tasksPerChannel
    /\ mainpc = "send" =>
          /\ Len(inputs[dispatchTarget(mi)]) < tasksPerChannel
          /\ ENABLED Dispatch
    /\ mainpc = "close" => ENABLED CloseInputs

\* all items are sent and all inputs closed although no worker has taken an
\* item, and worker 0's channel is filled to its capacity
C23_Witness ==
    /\ mainpc = "wait"
    /\ count = 3
    /\ concurrency = 2
    /\ \A w \in Workers : received[w] = <<>> /\ job[w] = NoJob
    /\ Len(inputs[0]) = tasksPerChannel

------------------------------------------------------------------------------
\* beginTime := time.Now() follows the spawn loop and precedes the first send
timerStarted == mainpc # "spawn"

\* endTime := time.Now() follows the return of waitForCases
timerStopped == mainpc = "done"

\* C24: the timed window covers all the work: nothing is sent, taken or
\* called before the start timestamp, and when the end timestamp is taken
\* every item has been taken, its call has returned and its outcome has been
\* collected, and every worker has finished.
C24_TimedWindowCoversWork ==
    /\ ~ timerStarted =>
          /\ \A w \in Workers : inputs[w] = <<>> /\ received[w] = <<>>
          /\ \A i \in Items : callResult[i] = "none"
    /\ timerStopped =>
          /\ \A w \in Workers :
                /\ wpc[w] = "done"
                /\ inputs[w] = <<>>
                /\ inFlight(w) = {}
                /\ outputs[w] = <<>>
                /\ errors[w] = <<>>
          /\ \A i \in Items : callResult[i] # "none"
          /\ succeeded + failed = count

\* the end timestamp of a run of three items over two workers
C24_Witness ==
    /\ timerStopped
    /\ count = 3
    /\ concurrency = 2
    /\ succeeded = 2
    /\ failed = 1

------------------------------------------------------------------------------
\* number of the line of the file that holds the byte at offset off
lineAt(off) ==
    CHOOSE k \in 1 .. Len(fileLines) :
       /\ Len(concatLines(SubSeq(fileLines, 1, k))) > off
       /\ Len(concatLines(SubSeq(fileLines, 1, k - 1))) <= off

\* C25: for one random offset getLine reads at most two lines of the buffer:
\* the pair it returns is that of the line the offset falls in or of the line
\* right after it, the latter only when the text from the offset to the end
\* of its line was rejected; when both are rejected the loop starts over with
\* a new offset, and no third line is read.
C25_AtMostTwoLinesPerOffset ==
    /\ linesRead \in 0 .. 2
    /\ linepc = "returned" =>
          LET j == lineAt(offset) IN
          /\ Len(examined) = linesRead
          /\ linesRead >= 1
          /\ \E k \in {j, j + 1} :
                /\ k <= Len(fileLines)
                /\ k - j = linesRead - 1
                /\ lineValue = fileLines[k].value
                /\ lineKey = <<"d", "a", "t", "a">> \o fileLines[k].index
          /\ linesRead = 2 => rejected(SplitN3(examined[1]))

\* both lines of a buffer were rejected and the loop is back at its head
C25_Witness ==
    /\ linepc = "loop"
    /\ linesRead = 2
    /\ Len(fileLines) = MaxLines

------------------------------------------------------------------------------
\* The goroutines of the atomic-cursor variant are scheduled fairly.
FairCursorSpec ==
    /\ CursorSpec
    /\ WF_vars(WgAdd \/ GoRoutines \/ WgWait)
    /\ \A r \in 0 .. (MaxRoutines - 1) :
          WF_vars(r \in Routines /\ (Claim(r) \/ Submit(r) \/ ReadLast(r)
                                     \/ WriteLast(r) \/ Flush(r) \/ WgDone(r)))

\* ceil(a / b)
ceilDiv(a, b) == (a + b - 1) \div b

RECURSIVE requestsBy(_)
\* number of bulk requests the routines 0 .. n-1 have submitted
requestsBy(n) ==
    IF n = 0 THEN 0 ELSE Len(batches[n - 1]) + requestsBy(n - 1)

\* a routine has left its claim loop
leftLoop(r) == rpc[r] \in {"flush", "wgdone", "exited", "panic"}

\* the counting part of C26: every value a routine obtains from the cursor is
\* Bulk above the previous cursor and above every value any routine holds, so
\* no value is obtained twice; a routine leaves the loop exactly at its first
\* value beyond the total and claims nothing after it; when all have left,
\* ceil(Count/Bulk) batches were claimed for submission and the cursor is
\* Bulk * (ceil(Count/Bulk) + Concurrency).
cursorCounts ==
    /\ \A r \in Routines :
          /\ leftLoop(r) <=> (rpc[r] # "unborn" /\ cursorExhausted(t[r]))
          /\ rpc[r] = "submit" => ~ cursorExhausted(t[r])
          /\ \A q \in Routines : (q # r /\ t[r] # 0) => t[q] # t[r]
    /\ (\A r \in Routines : leftLoop(r)) =>
          /\ requestsBy(CommandArgs.Concurrency)
                = ceilDiv(CommandArgs.Count, CommandArgs.Bulk)
          /\ totalWrite = CommandArgs.Bulk
                * (ceilDiv(CommandArgs.Count, CommandArgs.Bulk) + CommandArgs.Concurrency)

cursorSteps ==
    \A r \in Routines :
       /\ t'[r] # t[r] =>
             /\ t'[r] = totalWrite + CommandArgs.Bulk
             /\ totalWrite' = t'[r]
             /\ \A q \in Routines : t[q] < t'[r]
       /\ leftLoop(r) => (t'[r] = t[r] /\ batches'[r] = batches[r])

------------------------------------------------------------------------------
\* C27: create returns exactly when all producers are done: wg.Wait returns
\* only after every worker has left its claim loop, flushed and called wg.Done
\* (the counter is the number of workers that have not called it yet, so each
\* calls it once), and once all workers have finished create does return.
C27_ReturnsWhenAllDone ==
    /\ [](createpc = "returned" => \A r \in Routines : rpc[r] = "exited")
    /\ [](createpc # "add" =>
             wg = Cardinality({r \in Routines : rpc[r] # "exited"}))
    /\ [](\A r \in Routines : rpc[r] = "exited" => (leftLoop(r) /\ cursorExhausted(t[r])))
    /\ ((createpc = "wait" /\ \A r \in Routines : rpc[r] = "exited")
           ~> createpc = "returned")

\* two workers have finished and create has returned
C27_Witness ==
    /\ createpc = "returned"
    /\ CommandArgs.Concurrency = 2
    /\ wg = 0
    /\ \A r \in Routines : rpc[r] = "exited" /\ Len(batches[r]) > 0

------------------------------------------------------------------------------
\* The waitForCases of part_000 185-224 runs the same loop over the same case
\* list and prints each failure with the index chosen-concurrency.

\* fmt.Fprintf(os.Stderr, "%d: %s\n", chosen-concurrency, value.String())
loggedIndex(chosen) == chosen - concurrency

\* C30: the index logged with a failure message is the number of the worker
\* whose error channel delivered it, also after closed channels have been
\* removed from the case list.
C30_LoggedIndexIsWorker ==
    mainpc = "wait" =>
       \A chosen \in 0 .. (Len(cases) - 1) :
          LET c == cases[chosen + 1] IN
          (chanBuf(c) # <<>> /\ ~ isOutputIndex(chosen, middle)) =>
             /\ loggedIndex(chosen) \in Workers
             /\ loggedIndex(chosen) = c.w

------------------------------------------------------------------------------
\* position of v in q, 0 if it does not occur
positionIn(q, v) ==
    IF \E k \in 1 .. Len(q) : q[k] = v
       THEN CHOOSE k \in 1 .. Len(q) : q[k] = v
       ELSE 0

\* the entries of list that come from one worker are in the order in which
\* that worker took their items (and so produced their outcomes)
inWorkerOrder(list) ==
    \A p, q \in 1 .. Len(list) :
       (p < q /\ list[p] % concurrency = list[q] % concurrency) =>
          LET w == list[p] % concurrency IN
          /\ positionIn(received[w], list[p]) > 0
          /\ positionIn(received[w], list[p]) < positionIn(received[w], list[q])

\* C29: per-worker arrival order is preserved: the success payloads of one
\* worker appear in the success list in the order the worker produced them,
\* and its failure messages in the failure list in the order produced.
C29_PerWorkerOrderKept ==
    /\ inWorkerOrder(succeededMessages)
    /\ inWorkerOrder(failedMessages)

\* worker 0 of two has produced a failure for item 0 and for item 2, and a
\* success of worker 1 is collected too
C29_Witness ==
    /\ Terminated
    /\ count = 3
    /\ concurrency = 2
    /\ failedMessages = <<0, 2>>
    /\ succeededMessages = <<1>>

------------------------------------------------------------------------------
\* a routine has read last for its progress line and not yet written it
betweenReadAndWrite(r) == rpc[r] = "writeLast"

\* C31: the shared progress timestamp last is never accessed by two workers
\* at the same time: while one worker is between its read of last and the
\* write that follows, no other worker reads or writes last.
C31_LastAccessedByOneWorker ==
    /\ Cardinality({r \in Routines : betweenReadAndWrite(r)}) <= 1
    /\ \A r, q \in Routines :
          (r # q /\ betweenReadAndWrite(r)) =>
             ~ (ENABLED ReadLast(q) \/ ENABLED WriteLast(q))

====
